---- MODULE Spec2Model ----
(***************************************************************************)
(* The counting semaphore of src/src/metered_concurrency.rs and the        *)
(* `metered` harness that exercises it.                                    *)
(*                                                                         *)
(* One atomic step of the model is one atomic operation of the code (the   *)
(* load, the compare-and-swap and the fetch_add on `count`, a channel send *)
(* or receive) together with the thread-local code that follows it up to   *)
(* the next atomic operation.  timer::sleep in acquire is a step of its    *)
(* own, since other threads run while a thread sleeps.                     *)
(*                                                                         *)
(* Durations are counted in milliseconds.                                  *)
(***************************************************************************)
EXTENDS Integers, FiniteSets

(***************************************************************************)
(* Bounds of the model.  The harness of the source runs 10 workers on 4    *)
(* resources (lines 69-70); the model runs the same program at the scale   *)
(* given by NUM_WORKERS and MAX_COUNT.                                     *)
(***************************************************************************)
\* Number of threads (the workers of `metered`).
NUM_WORKERS == 3

\* Largest capacity a semaphore is built with (the capacity in `metered`).
MAX_COUNT == 2

\* Failed attempts of one acquire call that the model counts.  Later
\* attempts are taken as the code takes them, but retries, backoff and
\* slept keep the values they had at the bound.
MaxRetries == 3

\* usize arithmetic wraps.  The target's usize has 64 bits; TLC's integers
\* have 32, so the model wraps at 2^30.  No reachable value of the counter
\* is near either modulus.
UsizeModulus == 2^30

Threads == 1..NUM_WORKERS

\* Backoff units a semaphore is built with (`metered` uses 1 ms, line 71).
Units == {1, 2}

\* observed[t] before the thread's first count() of a phase.
NoValue == -1

VARIABLES
    max,        \* the `max` argument of new (line 29); the code does not store it
    sem_backoff,\* CountingSemaphore.backoff (line 19), in ms
    count,      \* CountingSemaphore.count (line 18)
    pc,         \* pc[t]: where thread t is
    loaded,     \* loaded[t]: acquire's local `count` (line 39)
    backoff,    \* backoff[t]: acquire's local `backoff` (line 36), in ms
    retries,    \* retries[t]: failed attempts of t's current acquire call
    slept,      \* slept[t]: duration of the last sleep of t's current acquire call
    observed,   \* observed[t]: the caller's local `count` (lines 82, 91)
    decs,       \* decs[t]: units t's compare-and-swaps took off the counter, this cycle
    guards,     \* guards[t]: guards t's acquire returned, this cycle
    drops,      \* drops[t]: runs of drop() on t's guards, this cycle
    incs,       \* incs[t]: units t's drops added to the counter, this cycle
    mainpc,     \* where the thread running `metered` is
    spawned,    \* workers spawned so far (the loop of line 76)
    chan,       \* messages sent on the channel and not yet received
    received    \* messages received by the loop of line 100

semVars == <<max, sem_backoff>>
acqVars == <<loaded, backoff, retries, slept>>
ghostVars == <<decs, guards, drops, incs>>
mainVars == <<mainpc, spawned, chan, received>>
vars == <<max, sem_backoff, count, pc, loaded, backoff, retries, slept,
          observed, decs, guards, drops, incs, mainpc, spawned, chan, received>>

(***************************************************************************)
(* The semaphore's operations on values.                                   *)
(***************************************************************************)
\* Mutant of new: the semaphore starts with no permit available.
new_empty(m, b) == [count |-> 0, backoff |-> b]

\* CountingSemaphore::new (line 30): the fields of the new semaphore.
new(m, b) == [count |-> m, backoff |-> b]

\* Mutant of SkipsSwap: the last permit is never taken.
SkipsSwapUpToOne(c) == c <= 1

\* Mutant of SkipsSwap: the check for 0 left out.
SkipsSwapNever(c) == FALSE

\* Line 42, left operand: a loaded value of 0 skips the compare-and-swap.
SkipsSwap(c) == c = 0

\* Mutant of Pred: the swap stores the value it loaded.
PredSame(c) == c

\* `count - 1` of line 42, in usize.
Pred(c) == (c - 1) % UsizeModulus

\* Mutant of compare_and_swap: a plain store in place of the swap.
compare_and_swap_blind(stored, current, newval) ==
    [stored |-> newval, old |-> current]

\* AtomicUint::compare_and_swap(current, new): the value stored afterwards,
\* and the value returned (the one found).
compare_and_swap(stored, current, newval) ==
    [stored |-> IF stored = current THEN newval ELSE stored, old |-> stored]

\* Mutant of SwapLost: the returned value compared with the new value.
SwapLostAgainstNew(old, c) == old /= c - 1

\* Line 42, right operand: the swap is lost when it returns another value
\* than the one loaded.
SwapLost(old, c) == old /= c

\* Mutants of fetch_add: two units added; nothing added.
fetch_add_twice(stored) == (stored + 2) % UsizeModulus

fetch_add_lost(stored) == stored

\* AtomicUint::fetch_add(1) of line 64: the value stored afterwards.
fetch_add(stored) == (stored + 1) % UsizeModulus

\* Mutant of NextBackoff: the backoff doubles.
NextBackoffDoubling(b, unit) == b + b

\* Line 45: backoff = backoff + self.backoff.
NextBackoff(b, unit) == b + unit

\* Mutant of CountOf: the permits in use are returned, not the remaining ones.
CountOfUsed(stored) == max - stored

\* CountingSemaphore::count (line 56).
CountOf(stored) == stored

(***************************************************************************)
(* Positions of a thread.                                                  *)
(*   "unspawned"  not yet spawned by `metered` (line 79)                   *)
(*   "idle"       running, outside acquire, holding no guard               *)
(*   "load"       in acquire, before the load of line 39                   *)
(*   "cas"        in acquire, after a load of a value > 0, before the      *)
(*                compare-and-swap of line 42                              *)
(*   "sleep"      in acquire, before timer::sleep of line 44               *)
(*   "hold"       acquire has returned the guard (line 51)                 *)
(*   "kept"       holds its guard and will never drop it                   *)
(*   "work"       worker: after the assertion of line 84, guard held       *)
(*   "unwind"     worker: the assertion of line 84 failed, guard held      *)
(*   "released"   worker: guard dropped (line 89)                          *)
(*   "send"       worker: before tx.send of line 95                        *)
(*   "done"       worker: returned                                         *)
(*   "panicked"   worker: ended by a panic                                 *)
(***************************************************************************)
InAcquire(t) == pc[t] \in {"load", "cas", "sleep"}

HoldsGuard(t) == pc[t] \in {"hold", "kept", "work", "unwind"}

Holders == {t \in Threads : HoldsGuard(t)}

\* What one step did to the counter, in usize.
Taken == (count - count') % UsizeModulus
Given == (count' - count) % UsizeModulus

(***************************************************************************)
(* CountingSemaphore::acquire (lines 34-52).                               *)
(***************************************************************************)
\* Line 36: the call begins; a new cycle of the caller begins with it.
Call(t) ==
    /\ pc[t] = "idle"
    /\ pc' = [pc EXCEPT ![t] = "load"]
    /\ backoff' = [backoff EXCEPT ![t] = sem_backoff]
    /\ loaded' = [loaded EXCEPT ![t] = 0]
    /\ retries' = [retries EXCEPT ![t] = 0]
    /\ slept' = [slept EXCEPT ![t] = 0]
    /\ observed' = [observed EXCEPT ![t] = NoValue]
    /\ decs' = [decs EXCEPT ![t] = 0]
    /\ guards' = [guards EXCEPT ![t] = 0]
    /\ drops' = [drops EXCEPT ![t] = 0]
    /\ incs' = [incs EXCEPT ![t] = 0]
    /\ UNCHANGED <<semVars, count, mainVars>>

\* Line 39, and the left operand of line 42.
Load(t) ==
    /\ pc[t] = "load"
    /\ loaded' = [loaded EXCEPT ![t] = count]
    /\ pc' = [pc EXCEPT ![t] = IF SkipsSwap(count) THEN "sleep" ELSE "cas"]
    /\ UNCHANGED <<semVars, count, backoff, retries, slept, observed,
                   ghostVars, mainVars>>

\* The compare-and-swap of line 42 and, when it wins, lines 48 and 51.
\* The local `count` is not read after the swap, and the locals of acquire
\* end with the call.
Cas(t) ==
    /\ pc[t] = "cas"
    /\ LET r == compare_and_swap(count, loaded[t], Pred(loaded[t]))
           lost == SwapLost(r.old, loaded[t])
       IN  /\ count' = r.stored
           /\ pc' = [pc EXCEPT ![t] = IF lost THEN "sleep" ELSE "hold"]
           /\ decs' = [decs EXCEPT ![t] = @ + Taken]
           /\ guards' = [guards EXCEPT ![t] = IF lost THEN @ ELSE @ + 1]
           /\ loaded' = [loaded EXCEPT ![t] = 0]
           /\ backoff' = [backoff EXCEPT ![t] = IF lost THEN @ ELSE 0]
           /\ retries' = [retries EXCEPT ![t] = IF lost THEN @ ELSE 0]
           /\ slept' = [slept EXCEPT ![t] = IF lost THEN @ ELSE 0]
    /\ UNCHANGED <<semVars, observed, drops, incs, mainVars>>

\* Lines 44-45.  Up to MaxRetries failed attempts are counted.
Sleep(t) ==
    /\ pc[t] = "sleep"
    /\ pc' = [pc EXCEPT ![t] = "load"]
    /\ IF retries[t] < MaxRetries
       THEN /\ slept' = [slept EXCEPT ![t] = backoff[t]]
            /\ backoff' = [backoff EXCEPT ![t] = NextBackoff(@, sem_backoff)]
            /\ retries' = [retries EXCEPT ![t] = @ + 1]
       ELSE UNCHANGED <<slept, backoff, retries>>
    /\ UNCHANGED <<semVars, count, loaded, observed, ghostVars, mainVars>>

(***************************************************************************)
(* CountingSemaphore::count (lines 55-57), called by a thread that is not  *)
(* inside acquire.                                                         *)
(***************************************************************************)
Count(t) ==
    /\ pc[t] \in {"idle", "hold"}
    /\ observed' = [observed EXCEPT ![t] = CountOf(count)]
    /\ UNCHANGED <<semVars, count, pc, acqVars, ghostVars, mainVars>>

(***************************************************************************)
(* Drop for CountingSemaphoreGuard (lines 61-66): what the drop of t's     *)
(* guard does to the semaphore.                                            *)
(***************************************************************************)
\* Mutant of DropGuard: the guard goes away without running drop().
DropGuardForgotten(t) == UNCHANGED <<count, drops, incs>>


DropGuard(t) ==
    /\ count' = fetch_add(count)
    /\ drops' = [drops EXCEPT ![t] = @ + 1]
    /\ incs' = [incs EXCEPT ![t] = @ + Given]

\* A thread that holds a guard lets it go out of scope.
Drop(t) ==
    /\ pc[t] = "hold"
    /\ DropGuard(t)
    /\ pc' = [pc EXCEPT ![t] = "idle"]
    /\ observed' = [observed EXCEPT ![t] = NoValue]
    /\ UNCHANGED <<semVars, acqVars, decs, guards, mainVars>>

(***************************************************************************)
(* Threads that share one semaphore and call acquire, count() and drop     *)
(* their guards, again and again.                                          *)
(***************************************************************************)
InitThreads(p) ==
    /\ pc = [t \in Threads |-> p]
    /\ loaded = [t \in Threads |-> 0]
    /\ backoff = [t \in Threads |-> 0]
    /\ retries = [t \in Threads |-> 0]
    /\ slept = [t \in Threads |-> 0]
    /\ observed = [t \in Threads |-> NoValue]
    /\ decs = [t \in Threads |-> 0]
    /\ guards = [t \in Threads |-> 0]
    /\ drops = [t \in Threads |-> 0]
    /\ incs = [t \in Threads |-> 0]

InitSem(m, b) ==
    /\ max = m
    /\ sem_backoff = new(m, b).backoff
    /\ count = new(m, b).count

Init ==
    /\ \E m \in 1..MAX_COUNT : \E b \in Units : InitSem(m, b)
    /\ InitThreads("idle")
    /\ mainpc = "absent"
    /\ spawned = 0
    /\ chan = 0
    /\ received = 0

Next ==
    \E t \in Threads :
        \/ Call(t)
        \/ Load(t)
        \/ Cas(t)
        \/ Sleep(t)
        \/ Count(t)
        \/ Drop(t)

Spec == Init /\ [][Next]_vars

\* Every thread inside acquire is eventually scheduled, and every guard is
\* eventually dropped.  Whether a thread calls acquire (again) or count() is
\* up to the thread.
AcquireStep(t) == Load(t) \/ Cas(t) \/ Sleep(t)

Fair ==
    \A t \in Threads : WF_vars(AcquireStep(t)) /\ WF_vars(Drop(t))

FairSpec == Spec /\ Fair

(***************************************************************************)
(* A thread that fails while it holds a guard.  The guard is a local of    *)
(* the failing thread (line 81), so the unwinding of the panic drops it    *)
(* and runs drop() (lines 61-66); the thread ends.                         *)
(***************************************************************************)
Unwind(t) ==
    /\ pc[t] = "hold"
    /\ DropGuard(t)
    /\ pc' = [pc EXCEPT ![t] = "panicked"]
    /\ observed' = [observed EXCEPT ![t] = NoValue]
    /\ UNCHANGED <<semVars, acqVars, decs, guards, mainVars>>

UnwindNext == Next \/ \E t \in Threads : Unwind(t)

UnwindSpec == Init /\ [][UnwindNext]_vars

(***************************************************************************)
(* The same threads on a semaphore of any capacity, 0 included: new takes  *)
(* any usize (line 29) and checks nothing.                                 *)
(***************************************************************************)
AnyCapacityInit ==
    /\ \E m \in 0..MAX_COUNT : \E b \in Units : InitSem(m, b)
    /\ InitThreads("idle")
    /\ mainpc = "absent"
    /\ spawned = 0
    /\ chan = 0
    /\ received = 0

AnyCapacitySpec == AnyCapacityInit /\ [][Next]_vars

(***************************************************************************)
(* A thread that never releases: from some point on it keeps the guard     *)
(* that acquire returned (line 51) and drop() never runs for it.           *)
(***************************************************************************)
Keep(t) ==
    /\ pc[t] = "hold"
    /\ pc' = [pc EXCEPT ![t] = "kept"]
    /\ observed' = [observed EXCEPT ![t] = NoValue]
    /\ UNCHANGED <<semVars, count, acqVars, ghostVars, mainVars>>

Kept == {t \in Threads : pc[t] = "kept"}

LeakNext == Next \/ \E t \in Threads : Keep(t)

LeakSpec == Init /\ [][LeakNext]_vars

\* Fair scheduling as in FairSpec: a guard that is not kept is eventually
\* dropped.
LeakFairSpec == LeakSpec /\ Fair

(***************************************************************************)
(* A thread that the scheduler stops for good, at any point of its code.   *)
(* No step of acquire (lines 37-52) or of drop (lines 61-66) waits for     *)
(* another thread, so one stalled thread is modelled by a schedule that is *)
(* fair to every thread but that one.                                      *)
(***************************************************************************)
Stalled == CHOOSE t \in Threads : TRUE

Running == Threads \ {Stalled}

FairToRunning ==
    \A t \in Running : WF_vars(AcquireStep(t)) /\ WF_vars(Drop(t))

FairToStalled == WF_vars(AcquireStep(Stalled)) /\ WF_vars(Drop(Stalled))

StalledFairSpec == Spec /\ FairToRunning

(***************************************************************************)
(* `metered` (lines 68-103): the main thread spawns the workers, drops its *)
(* sender and receives one message per worker; each worker runs lines      *)
(* 80-95.                                                                  *)
(***************************************************************************)
\* assert!(count < MAX_COUNT), line 84.
AssertAcquired(c, m) == c < m

\* assert!(count <= MAX_COUNT), line 92.
AssertReleased(c, m) == c <= m

\* The receiver lives until `metered` returns or panics.
ReceiverAlive == mainpc \in {"spawn", "recv"}

\* The senders: main's tx until line 98, and the clone of every spawned
\* worker that has not ended.
SendersAlive ==
    \/ mainpc = "spawn"
    \/ \E t \in Threads : pc[t] \notin {"unspawned", "done", "panicked"}

\* Lines 76-79, one iteration; after the last one, drop(tx) of line 98.
Spawn ==
    /\ mainpc = "spawn"
    /\ spawned < NUM_WORKERS
    /\ spawned' = spawned + 1
    /\ pc' = [pc EXCEPT ![spawned + 1] = "idle"]
    /\ mainpc' = IF spawned + 1 = NUM_WORKERS THEN "recv" ELSE "spawn"
    /\ UNCHANGED <<semVars, count, acqVars, observed, ghostVars, chan, received>>

\* Lines 82-85: count() and the assertion, with the guard held.
CheckAcquired(t) ==
    /\ pc[t] = "hold"
    /\ observed' = [observed EXCEPT ![t] = CountOf(count)]
    /\ pc' = [pc EXCEPT ![t] = IF AssertAcquired(CountOf(count), max)
                               THEN "work" ELSE "unwind"]
    /\ UNCHANGED <<semVars, count, acqVars, ghostVars, mainVars>>

\* Lines 87-89: the sleep and drop(guard); or the drop of the guard by the
\* unwinding of a failed assertion of line 84.
Release(t) ==
    /\ pc[t] \in {"work", "unwind"}
    /\ DropGuard(t)
    /\ pc' = [pc EXCEPT ![t] = IF pc[t] = "work" THEN "released" ELSE "panicked"]
    /\ UNCHANGED <<semVars, acqVars, observed, decs, guards, mainVars>>

\* Lines 91-93: count() and the assertion, after the release.
CheckReleased(t) ==
    /\ pc[t] = "released"
    /\ observed' = [observed EXCEPT ![t] = CountOf(count)]
    /\ pc' = [pc EXCEPT ![t] = IF AssertReleased(CountOf(count), max)
                               THEN "send" ELSE "panicked"]
    /\ UNCHANGED <<semVars, count, acqVars, ghostVars, mainVars>>

\* Line 95: tx.send(()).unwrap(); send fails once the receiver is gone.
Send(t) ==
    /\ pc[t] = "send"
    /\ chan' = IF ReceiverAlive THEN chan + 1 ELSE chan
    /\ pc' = [pc EXCEPT ![t] = IF ReceiverAlive THEN "done" ELSE "panicked"]
    /\ UNCHANGED <<semVars, count, acqVars, observed, ghostVars, mainpc,
                   spawned, received>>

\* Line 101, one iteration: rx.recv().unwrap().  recv blocks while the
\* channel is empty and a sender lives, and fails when none does.
Recv ==
    /\ mainpc = "recv"
    /\ chan > 0 \/ ~SendersAlive
    /\ IF chan > 0
       THEN /\ chan' = chan - 1
            /\ received' = received + 1
            /\ mainpc' = IF received + 1 = NUM_WORKERS THEN "done" ELSE "recv"
       ELSE /\ mainpc' = "panicked"
            /\ UNCHANGED <<chan, received>>
    /\ UNCHANGED <<semVars, count, pc, acqVars, observed, ghostVars, spawned>>

\* metered, lines 69-75.
MeteredInit ==
    /\ InitSem(MAX_COUNT, 1)
    /\ InitThreads("unspawned")
    /\ mainpc = "spawn"
    /\ spawned = 0
    /\ chan = 0
    /\ received = 0

WorkerStep(t) ==
    \/ Call(t)
    \/ Load(t)
    \/ Cas(t)
    \/ Sleep(t)
    \/ CheckAcquired(t)
    \/ Release(t)
    \/ CheckReleased(t)
    \/ Send(t)

MainStep == Spawn \/ Recv

MeteredNext == MainStep \/ \E t \in Threads : WorkerStep(t)

MeteredSpec == MeteredInit /\ [][MeteredNext]_vars

\* Every thread that can take a step is eventually scheduled.
MeteredFair ==
    /\ WF_vars(MainStep)
    /\ \A t \in Threads : WF_vars(WorkerStep(t))

FairMeteredSpec == MeteredSpec /\ MeteredFair

(***************************************************************************)
(* Properties.                                                             *)
(***************************************************************************)
\* C1: in every reachable state the counter satisfies 0 <= count <= max.
C1_CounterInRange == 0 <= count /\ count <= max

\* A semaphore of the largest capacity is empty: a holder has read 0 from
\* count() and a thread inside acquire has failed and slept.
C1_Witness ==
    /\ max = MAX_COUNT
    /\ count = 0
    /\ \E t \in Threads : InAcquire(t) /\ retries[t] >= 1
    /\ \E t \in Threads : pc[t] = "hold" /\ observed[t] = 0

\* C2: with max = K and more than K threads that acquire, hold and drop, no
\* more than K threads hold a permit at once.
C2_NoOversubscription == Cardinality(Holders) <= max

\* K threads hold a permit and every other thread is inside acquire.
C2_Witness ==
    /\ NUM_WORKERS > max
    /\ Cardinality(Holders) = max
    /\ \A t \in Threads \ Holders : InAcquire(t)

\* C3: while the counter is 0 no call of acquire returns, and only the drop
\* of a guard makes the counter positive again; so every return of acquire
\* comes from a state, after the call began, in which the counter was
\* greater than 0.
C3_Step ==
    \A t \in Threads :
        /\ (InAcquire(t) /\ count = 0) =>
              /\ pc'[t] /= "hold"
              /\ count' > 0 => \E u \in Threads : drops'[u] = drops[u] + 1
        /\ (InAcquire(t) /\ pc'[t] = "hold") => count > 0

C3_NoReturnAtZero == [][C3_Step]_vars

\* Every permit is held, the counter is 0, and a thread inside acquire has
\* failed and slept MaxRetries times.
C3_Witness ==
    /\ count = 0
    /\ Cardinality(Holders) = max
    /\ \E t \in Threads : InAcquire(t) /\ retries[t] = MaxRetries

\* C4: each successful acquire produces exactly one guard and each guard
\* causes exactly one increment: the increments performed equal the guards
\* dropped and never exceed the successful compare-and-swap decrements.
\* The counts are those of each thread's current cycle (acquire, hold,
\* drop), which holds one acquire.
C4_OneGuardOneIncrement ==
    \A t \in Threads :
        /\ guards[t] = decs[t]
        /\ incs[t] = drops[t]
        /\ incs[t] <= decs[t]
        /\ decs[t] <= 1
        /\ (pc[t] = "hold") => (guards[t] = 1 /\ drops[t] = 0)

\* One thread has dropped its guard while another holds one.
C4_Witness ==
    \E t, u \in Threads :
        /\ incs[t] = 1 /\ drops[t] = 1 /\ decs[t] = 1
        /\ pc[u] = "hold" /\ decs[u] = 1 /\ incs[u] = 0

\* C5: after N successful acquires and the drop of all N guards, with no
\* thread left inside acquire, count() is what it was before the first
\* acquire (the value new gave it).
NoAcquirePending == \A t \in Threads : ~InAcquire(t)

AllGuardsDropped == \A t \in Threads : guards[t] = drops[t]

C5_Conservation ==
    (NoAcquirePending /\ AllGuardsDropped) => CountOf(count) = new(max, sem_backoff).count

\* Every thread has acquired and dropped: N = NUM_WORKERS > max.
C5_Witness ==
    /\ NoAcquirePending
    /\ NUM_WORKERS > max
    /\ \A t \in Threads : guards[t] = 1 /\ drops[t] = 1

\* C6: under fair scheduling of every thread the run of `metered` ends:
\* every worker acquires, releases and signals, and the main thread
\* receives exactly NUM_WORKERS completion signals and returns.
MeteredDone ==
    /\ mainpc = "done"
    /\ received = NUM_WORKERS
    /\ chan = 0
    /\ \A t \in Threads : pc[t] = "done" /\ guards[t] = 1 /\ drops[t] = 1

C6_MeteredTerminates == <>[]MeteredDone

\* The run of more workers than permits has ended.
C6_Witness == MeteredDone /\ NUM_WORKERS > max

\* C7: in `metered` a worker sends its completion signal only after its
\* guard was dropped, so once the main thread has received every signal the
\* counter is back at max and no guard is live.
C7_AllReceivedAllReleased ==
    /\ \A t \in Threads :
          pc[t] \in {"send", "done"} =>
              (guards[t] = 1 /\ drops[t] = 1 /\ ~HoldsGuard(t))
    /\ received + chan <= Cardinality({t \in Threads : pc[t] = "done"})
    /\ (received = NUM_WORKERS) =>
          (count = max /\ Holders = {} /\ AllGuardsDropped)

\* The main thread has received the signal of every worker.
C7_Witness == received = NUM_WORKERS /\ mainpc = "done"

\* C8: every value count() returns to a thread that holds a guard is
\* strictly less than max, so the assertion of line 84 never fails.
C8_HeldCountBelowMax ==
    \A t \in Threads :
        /\ (HoldsGuard(t) /\ observed[t] /= NoValue) => observed[t] < max
        /\ pc[t] /= "unwind"

\* One worker has read max - 1 while it alone held a guard, another has
\* read 0 while every permit was held.
C8_Witness ==
    \E t, u \in Threads :
        /\ pc[t] = "work" /\ observed[t] = max - 1
        /\ pc[u] = "work" /\ observed[u] = 0

\* C9 as stated: under fair scheduling, with every guard eventually
\* dropped, every call of acquire by every thread eventually returns, also
\* when threads call acquire again after releasing.
C9_EveryCallReturns ==
    \A t \in Threads : InAcquire(t) ~> (pc[t] = "hold")

\* Some thread begins a call of acquire.
SomeCall == \E u \in Threads : Call(u)

\* C9, amended: under fair scheduling, with every guard eventually dropped,
\* every call of acquire eventually returns in every run in which the
\* threads begin only finitely many calls of acquire.
C9_ReturnsUnlessCallsNeverStop ==
    (<>[][~SomeCall]_vars) => C9_EveryCallReturns

\* A thread has returned from acquire while another, which has failed and
\* slept, is still inside it, on a semaphore of capacity 1.
C9_Witness ==
    \E t, u \in Threads :
        /\ max = 1
        /\ pc[t] = "hold"
        /\ InAcquire(u) /\ retries[u] >= 1

\* C10: within one call of acquire the k-th failed attempt sleeps for k
\* times the semaphore's backoff unit, the backoff then stands at k + 1
\* units, and a new call starts again at one unit.  (k <= MaxRetries.)
C10_LinearBackoff ==
    \A t \in Threads :
        InAcquire(t) =>
            /\ slept[t] = retries[t] * sem_backoff
            /\ backoff[t] = (retries[t] + 1) * sem_backoff

\* Each failed attempt that is counted sleeps one unit longer than the one
\* before it, and the first one sleeps one unit.
C10_Step ==
    \A t \in Threads :
        /\ (pc[t] = "sleep" /\ pc'[t] = "load" /\ retries[t] < MaxRetries) =>
              (slept'[t] = slept[t] + sem_backoff /\ slept'[t] = backoff[t])
        /\ (pc[t] = "idle" /\ pc'[t] = "load") => backoff'[t] = sem_backoff

C10_BackoffGrowth == []C10_LinearBackoff /\ [][C10_Step]_vars

\* A thread has failed and slept MaxRetries times in one call of acquire
\* on a semaphore whose unit is 2 ms.
C10_Witness ==
    \E t \in Threads :
        /\ sem_backoff = 2
        /\ pc[t] = "load"
        /\ retries[t] = MaxRetries
        /\ slept[t] = 2 * MaxRetries

\* C11: a permit is released on every exit path of its holder: when a thread
\* that holds a guard fails and unwinds, the counter is incremented exactly
\* once for that guard, and the permit is available to the other threads.
C11_ReleasedOnUnwind ==
    /\ \A t \in Threads :
          pc[t] = "panicked" =>
              (guards[t] = 1 /\ drops[t] = 1 /\ incs[t] = 1)
    /\ count + Cardinality(Holders) = max

C11_UnwindStep ==
    \A t \in Threads :
        (pc[t] = "hold" /\ pc'[t] = "panicked") => count' = count + 1

C11_PermitReleasedOnFailure == []C11_ReleasedOnUnwind /\ [][C11_UnwindStep]_vars

\* On a semaphore of capacity 1 a thread has failed while it held the guard,
\* and another thread has acquired the permit after it.
C11_Witness ==
    \E t, u \in Threads :
        /\ max = 1
        /\ pc[t] = "panicked"
        /\ pc[u] = "hold"

\* C12: count() is purely observational.  A step in which a thread receives
\* a value from count() leaves the counter, every thread's position, the
\* locals of every acquire in progress and the guards made and dropped as
\* they were, and the value is the one the counter holds at that instant, in
\* 0..max.
GetsCount(t) == observed'[t] /= observed[t] /\ observed'[t] /= NoValue

C12_Step ==
    \A t \in Threads :
        GetsCount(t) =>
            /\ observed'[t] = count
            /\ observed'[t] \in 0..max
            /\ count' = count
            /\ pc' = pc
            /\ loaded' = loaded /\ backoff' = backoff
            /\ retries' = retries /\ slept' = slept
            /\ guards' = guards /\ drops' = drops
            /\ Holders' = Holders
            /\ \A u \in Threads \ {t} : observed'[u] = observed[u]

C12_CountObservesOnly == [][C12_Step]_vars

\* A holder has read 0 from count() while another thread was between its
\* load and its compare-and-swap, and a third slept in acquire.
C12_Witness ==
    \E t, u, v \in Threads :
        /\ pc[t] = "hold" /\ observed[t] = 0 /\ count = 0
        /\ pc[u] = "cas"
        /\ pc[v] = "sleep" /\ retries[v] >= 1

\* C13: new(0, unit) is not rejected; it gives a semaphore whose counter is
\* 0 in every reachable state, on which no compare-and-swap is attempted
\* and no call of acquire returns: a thread inside acquire is before its
\* load or before its sleep, and can always take its next step.
C13_ZeroCapacity ==
    max = 0 =>
        /\ count = 0
        /\ \A t \in Threads :
              /\ pc[t] \in {"idle", "load", "sleep"}
              /\ guards[t] = 0 /\ decs[t] = 0
              /\ InAcquire(t) => ENABLED AcquireStep(t)

\* On a semaphore of capacity 0 every thread is inside acquire, and has
\* failed and slept MaxRetries times.
C13_Witness ==
    /\ max = 0
    /\ \A t \in Threads : InAcquire(t) /\ retries[t] = MaxRetries

\* With j guards kept forever at most max - j other threads hold a permit
\* at once, and with j = max the counter is 0 and no thread returns from
\* acquire any more.
C14_ShrunkCapacity ==
    /\ Cardinality(Holders \ Kept) <= max - Cardinality(Kept)
    /\ count = max - Cardinality(Holders)
    /\ (Cardinality(Kept) = max) =>
          (count = 0 /\ \A t \in Threads : pc[t] /= "hold")

\* With fewer than max guards kept, a call of acquire returns.
C14_CallsReturn ==
    \A t \in Threads :
        (InAcquire(t) /\ Kept /= {}) ~>
            (pc[t] = "hold" \/ Cardinality(Kept) = max)

\* C14 as stated: a guard that is never dropped shrinks the capacity and
\* does not deadlock the semaphore; while fewer than max guards are kept
\* the other threads' acquires complete under fair scheduling.
C14_LeakOnlyShrinks == []C14_ShrunkCapacity /\ C14_CallsReturn

\* C14, amended: the same, for the runs in which the threads begin only
\* finitely many calls of acquire.
C14_LeakOnlyShrinksFiniteCalls ==
    /\ []C14_ShrunkCapacity
    /\ (<>[][~SomeCall]_vars) => C14_CallsReturn

\* On a semaphore of capacity 2 one guard is kept, another thread holds the
\* remaining permit and a third waits in acquire.
C14_Witness ==
    \E t, u, v \in Threads :
        /\ max = 2
        /\ pc[t] = "kept"
        /\ pc[u] = "hold"
        /\ InAcquire(v) /\ retries[v] >= 1

\* C15: new sets the counter to max, and in every reachable state the
\* counter plus the number of live guards is max: the counter is the number
\* of AVAILABLE slots of max slots, of which each live guard holds one.
LiveGuards == {t \in Threads : guards[t] - drops[t] = 1}

C15_PermitAccounting ==
    /\ count + Cardinality(Holders) = max
    /\ LiveGuards = Holders
    /\ \A t \in Threads : guards[t] - drops[t] \in {0, 1}
    /\ (\A t \in Threads : guards[t] = 0) => count = max

\* One slot of two is held, one is available, after a guard was dropped.
C15_Witness ==
    /\ max = 2
    /\ count = 1
    /\ \E t, u \in Threads : pc[t] = "hold" /\ pc[u] = "idle" /\ drops[u] = 1

\* C16: every step that changes the counter changes it by exactly 1.  It
\* goes down only by a compare-and-swap of acquire that wins, whose loaded
\* value was greater than 0; it goes up only by the drop of a guard.  A
\* loaded value of 0 leads to no swap, so the counter never wraps below 0.
WinsSwap(t) == pc[t] = "cas" /\ pc'[t] = "hold" /\ loaded[t] > 0

DropsGuard(t) == HoldsGuard(t) /\ ~HoldsGuard(t)' /\ drops'[t] = drops[t] + 1

C16_Step ==
    \/ count' = count
    \/ count' = count - 1 /\ \E t \in Threads : WinsSwap(t)
    \/ count' = count + 1 /\ \E t \in Threads : DropsGuard(t)

C16_NoSwapAtZero ==
    /\ \A t \in Threads : pc[t] = "cas" => loaded[t] > 0
    /\ count \in 0..max

C16_UnitSteps == []C16_NoSwapAtZero /\ [][C16_Step]_vars

\* The counter is 0, one thread is between a load of a positive value and
\* its swap, and another has loaded 0 and goes to sleep without a swap.
C16_Witness ==
    \E t, u \in Threads :
        /\ count = 0
        /\ pc[t] = "cas"
        /\ pc[u] = "sleep" /\ retries[u] = 0

\* C17: a compare-and-swap of acquire fails only if another thread changed
\* the counter between this thread's load and its swap.  A failed swap
\* leaves the counter unchanged and makes no guard, and the thread sleeps
\* and then tries again from a fresh load.
LosesSwap(t) == pc[t] = "cas" /\ pc'[t] = "sleep"

ChangedByOther(t) ==
    \E u \in Threads \ {t} : WinsSwap(u) \/ DropsGuard(u)

C17_Step ==
    \A t \in Threads :
        /\ (pc[t] = "load" /\ pc'[t] = "cas") => loaded'[t] = count
        /\ (pc[t] = "cas" /\ pc'[t] = "cas") =>
               /\ loaded'[t] = loaded[t]
               /\ count' /= count => ChangedByOther(t)
        /\ LosesSwap(t) =>
               /\ count /= loaded[t]
               /\ count' = count
               /\ guards'[t] = guards[t]
               /\ decs'[t] = decs[t]
               /\ ~HoldsGuard(t)'
        /\ (pc[t] = "sleep" /\ pc'[t] /= "sleep") =>
               pc'[t] = "load" /\ count' = count

C17_FailedSwap == [][C17_Step]_vars

\* A thread is between its load of 2 and its swap while another thread has
\* won a swap in between, so that the first thread's swap is about to fail
\* against a counter of 1.
C17_Witness ==
    \E t, u \in Threads :
        /\ t /= u
        /\ pc[t] = "cas"
        /\ loaded[t] = 2
        /\ count = 1
        /\ pc[u] = "hold"

\* C18: acquire and release are lock-free.  A thread that is asleep or
\* stalled, inside acquire or anywhere else, never prevents the others from
\* acquiring or releasing: every running thread inside acquire can take its
\* next step and every holder can drop its guard, whatever the stalled
\* thread does.  Whenever the counter is greater than 0 and a thread is
\* inside acquire, some thread's acquire eventually succeeds: with one
\* thread stalled for good this holds for the running threads, and under a
\* schedule fair to all threads it holds for every thread.
SomeWin == \E t \in Threads : pc[t] = "cas" /\ pc'[t] = "hold"

CanWin(T) == count > 0 /\ \E t \in T : InAcquire(t)

C18_NeverBlocked ==
    \A t \in Threads :
        /\ InAcquire(t) => ENABLED AcquireStep(t)
        /\ HoldsGuard(t) => ENABLED Drop(t)

\* Without a winning swap, a positive counter stays positive and a thread
\* inside acquire stays inside it.
C18_Step ==
    /\ (CanWin(Running) /\ ~SomeWin) => CanWin(Running)'
    /\ (CanWin(Threads) /\ ~SomeWin) => CanWin(Threads)'

\* Swaps cannot stop being won while one could be won.
C18_Progress(T) == (<>[][~SomeWin]_vars) => <>[]~CanWin(T)

C18_LockFree ==
    /\ []C18_NeverBlocked
    /\ [][C18_Step]_vars
    /\ C18_Progress(Running)
    /\ (FairToStalled => C18_Progress(Threads))

\* The stalled thread is asleep inside acquire after a lost attempt, the
\* counter is positive again, one running thread is inside acquire and
\* another has won its swap and holds a guard.
C18_Witness ==
    \E t, u \in Running :
        /\ pc[Stalled] = "sleep"
        /\ count > 0
        /\ InAcquire(t)
        /\ pc[u] = "hold"

\* C19: an acquire that meets no contention, called when the counter holds
\* c > 0, returns after exactly one load and one successful
\* compare-and-swap, without sleeping, and leaves the counter at c - 1.  A
\* successful acquire lowers the counter by exactly 1 in total, however
\* many attempts it took.
Uncontended(t) == pc[t] = "cas" /\ count = loaded[t]

C19_Step ==
    \A t \in Threads :
        /\ (pc[t] = "load" /\ pc'[t] /= "load" /\ count > 0) =>
               /\ pc'[t] = "cas"
               /\ loaded'[t] = count
               /\ count' = count
               /\ retries'[t] = retries[t]
        /\ (Uncontended(t) /\ pc'[t] /= "cas") =>
               /\ pc'[t] = "hold"
               /\ count' = loaded[t] - 1
               /\ decs'[t] = 1
        /\ (InAcquire(t) /\ InAcquire(t)') =>
               /\ decs'[t] = 0
               /\ (pc'[t] /= pc[t] => count' = count)
        /\ (pc[t] = "sleep" /\ pc'[t] = "load") => retries'[t] > 0

C19_OneDecrement ==
    \A t \in Threads :
        /\ InAcquire(t) => decs[t] = 0
        /\ pc[t] = "hold" => decs[t] = 1 /\ guards[t] = 1
        /\ (InAcquire(t) /\ retries[t] = 0) =>
               /\ slept[t] = 0
               /\ backoff[t] = sem_backoff

C19_AcquireCost == []C19_OneDecrement /\ [][C19_Step]_vars

\* One thread has returned from acquire with one decrement to its name
\* and the counter one below its maximum, while no other thread has called
\* acquire yet.
C19_Witness ==
    \E t \in Threads :
        /\ pc[t] = "hold"
        /\ decs[t] = 1
        /\ max = 2
        /\ count = 1
        /\ \A u \in Threads \ {t} : pc[u] = "idle" /\ guards[u] = 0

====
